---- MODULE Spec2Model ----
(***************************************************************************)
(* Model of src/main.py, the sponsorship outreach script: the CSV ledger   *)
(* (sponsors.csv), the run loop of SponsorshipOutreachAutomation.run, the  *)
(* status update of update_csv_status and the pacing of                    *)
(* apply_rate_limiting, over a sequence of process runs (main).            *)
(*                                                                         *)
(* Strings are sequences of one-character strings, so that strip() and     *)
(* lower() are computed and not assumed.  A CSV row is a function from the *)
(* column names of the header to cells, as csv.DictReader yields it.       *)
(***************************************************************************)
EXTENDS Integers, Sequences, FiniteSets, TLC

VARIABLES
    csv_file,          \* the persisted ledger: [fieldnames, rows]
    clock,             \* wall clock in seconds (time.time / datetime.now)
    runs,              \* number of processes started so far
    pc,                \* position of the current process
    smtp_user,         \* self.smtp_user
    smtp_password,     \* self.smtp_password
    sponsors,          \* run(): the list returned by read_sponsors_csv
    i,                 \* run(): index of the sponsor being processed
    emails_sent,       \* self.emails_sent
    batch_start_time,  \* self.batch_start_time
    wait,              \* seconds of the sleep in progress
    loaded_file,       \* history: the ledger as read by this run
    src,               \* history: ledger row number of each loaded sponsor
    outcome,           \* history: what happened to each loaded sponsor
    cooldowns,         \* history: cooldowns entered in this run
    delays,            \* history: pacing delays started in this run
    marked,            \* history: <<run, identity>> persisted as Sent by that run
    io_failed,         \* history: open() raised in update_csv_status in this run
    faults,            \* history: failures, stalls and interrupts so far, all runs
    last               \* history: the last step taken

vars == <<csv_file, clock, runs, pc, smtp_user, smtp_password, sponsors, i, emails_sent,
          batch_start_time, wait, loaded_file, src, outcome,
          cooldowns, delays, marked, io_failed, faults, last>>

-----------------------------------------------------------------------------
(* Bounds of the model *)

MaxRows == 2
MaxRuns == 2
MaxPacingRows == 4

(* missing credentials, failed builds, failed or stalled sends, failed      *)
(* open() calls and interrupts the environment produces in one behaviour    *)
MaxFaults == 2

(* Rate limiting settings of __init__.  emails_per_batch is 40 in the code; *)
(* the model runs it scaled down so that the k-th batch boundary is reached *)
(* by ledgers of a few rows.                                                *)
min_delay == 5
max_delay == 13
emails_per_batch == 2
cooldown_duration == 35 * 60

-----------------------------------------------------------------------------
(* Strings *)

None == <<"<None>">>
NoTime == -1

Range(s) == {s[k] : k \in DOMAIN s}

IsSpace(c) == c = " "

RECURSIVE LStrip(_)
LStrip(s) == IF s # <<>> /\ IsSpace(Head(s)) THEN LStrip(Tail(s)) ELSE s

RECURSIVE RStrip(_)
RStrip(s) ==
    IF s # <<>> /\ IsSpace(s[Len(s)]) THEN RStrip(SubSeq(s, 1, Len(s) - 1)) ELSE s

Strip(s) == RStrip(LStrip(s))

LowerChar(c) ==
    CASE c = "A" -> "a"
      [] c = "B" -> "b"
      [] c = "C" -> "c"
      [] c = "S" -> "s"
      [] c = "M" -> "m"
      [] OTHER -> c

Lower(s) == [k \in DOMAIN s |-> LowerChar(s[k])]

Contains(s, c) == \E k \in DOMAIN s : s[k] = c

Digit(n) == <<"0", "1", "2", "3", "4", "5", "6", "7", "8", "9">>[n + 1]

RECURSIVE Decimal(_)
Decimal(n) == IF n < 10 THEN <<Digit(n)>> ELSE Append(Decimal(n \div 10), Digit(n % 10))

(* datetime.now().strftime('%Y-%m-%d %H:%M:%S'): the clock, to the second *)
FormatTime(t) == Decimal(t)

Sent == <<"S", "e", "n", "t">>
NotSent == <<"N", "o", "t", " ", "S", "e", "n", "t">>
Mechanical == <<"M", "e", "c", "h", "a", "n", "i", "c", "a", "l">>
CS == <<"C", "S">>
General == <<"G", "e", "n", "e", "r", "a", "l">>

-----------------------------------------------------------------------------
(* The ledger *)

CN == "Company Name"
PN == "POC Name"
EA == "Email Address"
CAT == "Category"
ST == "Status"
TS == "Sent Timestamp"

Columns == {CN, PN, EA, CAT, ST, TS}

(* row.get(key): None for a column the header does not have *)
Get(row, key) == IF key \in DOMAIN row THEN row[key] ELSE None

(* truthiness of a cell: None and '' are false *)
Truthy(cell) == cell # None /\ cell # <<>>

(* the comparison of line 302 made without regard to case *)
normalize_category_IgnoreCase(category) ==
    LET c == Strip(category)
    IN  IF Lower(c) \in {Lower(Mechanical), Lower(CS)} THEN c ELSE General

normalize_category(category) ==
    LET c == Strip(category)
    IN  IF c \in {Mechanical, CS} THEN c ELSE General

(* the sponsor dictionary built from one row, lines 263-270 *)
Sponsor(row) ==
    [k \in Columns |->
        CASE k = CN  -> IF Truthy(Get(row, CN)) THEN Strip(row[CN]) ELSE <<>>
          [] k = PN  -> IF Truthy(Get(row, PN)) THEN Strip(row[PN]) ELSE <<>>
          [] k = EA  -> IF Truthy(Get(row, EA)) THEN Lower(Strip(row[EA])) ELSE <<>>
          [] k = CAT -> normalize_category(
                           IF Truthy(Get(row, CAT)) THEN Strip(row[CAT]) ELSE <<>>)
          [] k = ST  -> IF Truthy(Get(row, ST)) THEN Strip(row[ST]) ELSE NotSent
          [] k = TS  -> IF Truthy(Get(row, TS)) THEN Strip(row[TS]) ELSE <<>>]

(* read_sponsors_csv without the test of lines 272-275 *)
RowLoaded_NoSentCheck(row) ==
    /\ {CN, PN, EA} \subseteq DOMAIN row
    /\ Contains(Sponsor(row)[EA], "@")

(* the test of lines 258-280: is the row appended to the result *)
RowLoaded(row) ==
    /\ {CN, PN, EA} \subseteq DOMAIN row
    /\ Sponsor(row)[ST] # Sent
    /\ Contains(Sponsor(row)[EA], "@")

RECURSIVE LoadedRows(_, _)
LoadedRows(rows, k) ==
    IF k > Len(rows) THEN <<>>
    ELSE IF RowLoaded(rows[k]) THEN <<k>> \o LoadedRows(rows, k + 1)
         ELSE LoadedRows(rows, k + 1)

(* the row numbers read_sponsors_csv keeps, in file order *)
read_rows(file) == LoadedRows(file.rows, 1)

read_sponsors_csv(file) ==
    [k \in DOMAIN read_rows(file) |-> Sponsor(file.rows[read_rows(file)[k]])]

-----------------------------------------------------------------------------
(* update_csv_status, lines 508-533 *)

Matches(row, sponsor) ==
    /\ Lower(Strip(row[EA])) = sponsor[EA]
    /\ Strip(row[CN]) = sponsor[CN]

(* row['Email Address'] or row['Company Name'] raises (KeyError for a      *)
(* column the file lacks, AttributeError for the None of a short row); the *)
(* company is only looked at when the email matches                        *)
RowRaises(row, sponsor) ==
    \/ EA \notin DOMAIN row
    \/ row[EA] = None
    \/ /\ Lower(Strip(row[EA])) = sponsor[EA]
       /\ (CN \notin DOMAIN row \/ row[CN] = None)

ReadRaises(file, sponsor) ==
    \E k \in DOMAIN file.rows : RowRaises(file.rows[k], sponsor)

(* lines 517-520: the row dictionary after the assignments *)
UpdatedRow(row, sponsor, now) ==
    IF Matches(row, sponsor)
    THEN [c \in DOMAIN row \cup {ST, TS} |->
            IF c = ST THEN Sent ELSE IF c = TS THEN FormatTime(now) ELSE row[c]]
    ELSE row

UpdatedRows(file, sponsor, now) ==
    [k \in DOMAIN file.rows |-> UpdatedRow(file.rows[k], sponsor, now)]

(* csv.DictWriter raises ValueError for a dictionary with a key that is   *)
(* not in fieldnames (extrasaction='raise')                                *)
Writable(row, fieldnames) == DOMAIN row \subseteq Range(fieldnames)

(* a row as the writer puts it in the file: every column of the header,   *)
(* '' for a missing or None value                                          *)
WrittenRow(row, fieldnames) ==
    [c \in Range(fieldnames) |->
        IF c \in DOMAIN row /\ row[c] # None THEN row[c] ELSE <<>>]

(* number of rows writerows puts out before it raises *)
WritableCount(rows, fieldnames) ==
    IF \A k \in DOMAIN rows : Writable(rows[k], fieldnames)
    THEN Len(rows)
    ELSE (CHOOSE k \in DOMAIN rows :
            /\ ~Writable(rows[k], fieldnames)
            /\ \A j \in 1..(k - 1) : Writable(rows[j], fieldnames)) - 1

(* the file after open(..., 'w'), writeheader and the first n of rows *)
WrittenFile(file, rows, n) ==
    [fieldnames |-> file.fieldnames,
     rows |-> [k \in 1..n |-> WrittenRow(rows[k], file.fieldnames)]]

(* True when the whole update ran without raising *)
update_ok(file, sponsor, now) ==
    /\ file.fieldnames # <<>>
    /\ ~ReadRaises(file, sponsor)
    /\ WritableCount(UpdatedRows(file, sponsor, now), file.fieldnames) = Len(file.rows)

(* the ledger update_csv_status leaves behind; storage_ok is FALSE when   *)
(* open() raises                                                           *)
update_csv_status(file, sponsor, now, storage_ok) ==
    IF ~storage_ok \/ file.fieldnames = <<>> \/ ReadRaises(file, sponsor)
    THEN file
    ELSE LET rows == UpdatedRows(file, sponsor, now)
         IN  WrittenFile(file, rows, WritableCount(rows, file.fieldnames))

EmptyFile == [fieldnames |-> <<>>, rows |-> <<>>]

(* the ledgers a KeyboardInterrupt inside update_csv_status can leave:    *)
(* untouched (before the file is opened for writing), empty (opened, the  *)
(* header not yet written) or the header and a prefix of the rows         *)
interrupted_update(file, sponsor, now) ==
    IF file.fieldnames = <<>> \/ ReadRaises(file, sponsor)
    THEN {file}
    ELSE LET rows == UpdatedRows(file, sponsor, now)
         IN  {file, EmptyFile}
             \cup {WrittenFile(file, rows, n) :
                      n \in 0..WritableCount(rows, file.fieldnames)}

-----------------------------------------------------------------------------
(* apply_rate_limiting, lines 472-495 *)

(* the test of line 475 written as a threshold instead of a multiple *)
CooldownDue_PastBatch(sent) == sent >= emails_per_batch

CooldownDue(sent) == sent > 0 /\ sent % emails_per_batch = 0

Max(a, b) == IF a >= b THEN a ELSE b

(* the remaining cooldown of line 482 without the max *)
CooldownWait_NoClamp(start, now) ==
    IF start # NoTime /\ start # 0
    THEN cooldown_duration - (now - start)
    ELSE cooldown_duration

(* the argument of the sleep of a cooldown, lines 480-488 *)
CooldownWait(start, now) ==
    IF start # NoTime /\ start # 0
    THEN Max(0, cooldown_duration - (now - start))
    ELSE cooldown_duration

(* send_email, lines 452-460: the seconds a stalled SMTP conversation     *)
(* takes, the sampled case being longer than a whole cooldown             *)
SlowSend == cooldown_duration + 5 * 60

(* random.randint with a range that is one too wide at its upper end *)
randint_OffByOne(a, b) == {n \in a..(b + 1) : n = a \/ n = b + 1}

(* random.randint(a, b): the two ends of the range are the sampled draws *)
randint(a, b) == {n \in a..b : n = a \/ n = b}

-----------------------------------------------------------------------------
(* Ledgers the runs start from *)

FullHeader == <<CN, PN, EA, CAT, ST, TS>>

(* the required columns, with the optional ones present or absent *)
Headers == {FullHeader, <<CN, PN, EA, CAT, ST>>, <<CN, PN, EA>>}

Cells(cn, pn, ea, cat, st, ts) ==
    [c \in Columns |->
        CASE c = CN -> cn [] c = PN -> pn [] c = EA -> ea
          [] c = CAT -> cat [] c = ST -> st [] c = TS -> ts]

(* the rows ledgers are made of: a pending contact, the same contact      *)
(* written with other case and spacing, a second contact without contact  *)
(* name, rows already Sent, a row whose email has no "@", a short row     *)
RowPool ==
    { Cells(<<"a">>, <<"p">>, <<"a", "@">>, CS, <<>>, <<>>),
      Cells(<<" ", "a">>, <<"p">>, <<"A", "@", " ">>, <<"c", "s">>,
            <<"s", "e", "n", "t">>, <<>>),
      Cells(<<"b">>, <<>>, <<"b", "@">>, Mechanical, <<>>, <<>>),
      Cells(<<"a">>, <<"p">>, <<"a", "@">>, <<>>, Sent, <<"7">>),
      Cells(<<"b">>, <<"p">>, <<"b", "@">>, <<>>, <<" ", "S", "e", "n", "t">>, <<>>),
      Cells(<<"c">>, <<"p">>, <<"c">>, <<>>, <<>>, <<>>),
      Cells(<<"c">>, <<"p">>, None, None, None, None) }

Restrict(cells, header) == [c \in Range(header) |-> cells[c]]

SeqsUpTo(S, n) == UNION {[1..m -> S] : m \in 1..n}

Ledgers ==
    {[fieldnames |-> h, rows |-> [k \in DOMAIN r |-> Restrict(r[k], h)]] :
        h \in Headers, r \in SeqsUpTo(RowPool, MaxRows)}

Names == <<"a", "b", "c", "d", "e", "f">>

(* ledgers of n distinct pending contacts with valid fields *)
PendingLedger(h, n) ==
    [fieldnames |-> h,
     rows |-> [k \in 1..n |->
                 Restrict(Cells(<<Names[k]>>, <<"p">>, <<Names[k], "@">>,
                                IF k = 1 THEN CS ELSE IF k = 2 THEN <<"x">> ELSE Mechanical,
                                <<>>, <<>>), h)]]

PacingLedgers == {PendingLedger(h, n) : h \in Headers, n \in 1..MaxPacingRows}

(* Category cells: the recognized values, with surrounding blanks, in     *)
(* other case, blank, unknown, and the None of a row that ends early      *)
CategoryInputs ==
    { CS, Mechanical, General, <<" ", "C", "S">>, <<"M", "e", "c", "h", "a", "n", "i", "c", "a", "l", " ">>,
      <<"c", "s">>, <<>>, <<" ">>, <<"x">>, None }

(* ledgers of two pending contacts whose Category cells are drawn freely *)
CategoryLedgers ==
    {[fieldnames |-> FullHeader,
      rows |-> <<Cells(<<"a">>, <<"p">>, <<"a", "@">>, c1, <<>>, <<>>),
                 Cells(<<"b">>, <<"p">>, <<"b", "@">>, c2, <<>>, <<>>)>>] :
        c1 \in CategoryInputs, c2 \in CategoryInputs}

-----------------------------------------------------------------------------
(* The processes *)

Identity(sponsor) == <<sponsor[EA], sponsor[CN]>>

(* load_configuration, lines 84-98: the value of the config file, or of  *)
(* the environment variable when that is set and not empty; None is an    *)
(* absent option or variable                                              *)
ConfigInputs == {None, <<>>, <<"u">>}

load_configuration(file_value, env_value) ==
    IF Truthy(env_value) THEN env_value ELSE file_value

(* what a setting can be after the file and the environment are combined *)
Configurations ==
    {load_configuration(file_value, env_value) :
        file_value \in ConfigInputs, env_value \in ConfigInputs}

(* the validation of lines 101-105 without the test of the password *)
ConfigValid_UserOnly(user, password) == Truthy(user)

(* lines 101-105: neither ValueError is raised *)
ConfigValid(user, password) == Truthy(user) /\ Truthy(password)

Idle == {"idle", "done", "interrupted", "fatal"}

InitWith(file) ==
    /\ csv_file = file
    /\ clock = 1
    /\ runs = 0
    /\ pc = "idle"
    /\ smtp_user = None
    /\ smtp_password = None
    /\ sponsors = <<>>
    /\ i = 1
    /\ emails_sent = 0
    /\ batch_start_time = NoTime
    /\ wait = 0
    /\ loaded_file = file
    /\ src = <<>>
    /\ outcome = <<>>
    /\ cooldowns = 0
    /\ delays = 0
    /\ marked = {}
    /\ io_failed = FALSE
    /\ faults = 0
    /\ last = [op |-> "none", k |-> 0, ok |-> FALSE]

Init == \E file \in Ledgers : InitWith(file)

InitPacing == \E file \in PacingLedgers : InitWith(file)

InitCategory == \E file \in CategoryLedgers : InitWith(file)

InitLive == \E h \in Headers, n \in 1..MaxRows : InitWith(PendingLedger(h, n))

(* main with a counter and a batch start that outlive the process, as if  *)
(* they were kept with the ledger instead of set in __init__              *)
main_KeepsBatchState ==
    /\ pc \in Idle
    /\ runs < MaxRuns
    /\ runs' = runs + 1
    /\ smtp_user' \in Configurations
    /\ smtp_password' \in Configurations
    /\ i' = 1
    /\ wait' = 0
    /\ cooldowns' = 0
    /\ delays' = 0
    /\ io_failed' = FALSE
    /\ IF ConfigValid(smtp_user', smtp_password')
       THEN /\ sponsors' = read_sponsors_csv(csv_file)
            /\ src' = read_rows(csv_file)
            /\ loaded_file' = csv_file
            /\ outcome' = [k \in DOMAIN sponsors' |-> "none"]
            /\ pc' = IF sponsors' = <<>> THEN "done" ELSE "loop"
            /\ last' = [op |-> "load", k |-> 0, ok |-> TRUE]
            /\ UNCHANGED faults
       ELSE /\ faults < MaxFaults
            /\ faults' = faults + 1
            /\ sponsors' = <<>>
            /\ src' = <<>>
            /\ outcome' = <<>>
            /\ pc' = "fatal"
            /\ last' = [op |-> "fatal", k |-> 0, ok |-> FALSE]
            /\ UNCHANGED loaded_file
    /\ UNCHANGED <<csv_file, clock, marked, emails_sent, batch_start_time>>

(* main, lines 584-587: a new process; __init__ resets the counters, run  *)
(* loads the ledger and returns at once when nothing is loaded            *)
main ==
    /\ pc \in Idle
    /\ runs < MaxRuns
    /\ runs' = runs + 1
    /\ emails_sent' = 0
    /\ batch_start_time' = NoTime
    /\ smtp_user' \in Configurations
    /\ smtp_password' \in Configurations
    /\ i' = 1
    /\ wait' = 0
    /\ cooldowns' = 0
    /\ delays' = 0
    /\ io_failed' = FALSE
    /\ IF ConfigValid(smtp_user', smtp_password')
       THEN /\ sponsors' = read_sponsors_csv(csv_file)
            /\ src' = read_rows(csv_file)
            /\ loaded_file' = csv_file
            /\ outcome' = [k \in DOMAIN sponsors' |-> "none"]
            /\ pc' = IF sponsors' = <<>> THEN "done" ELSE "loop"
            /\ last' = [op |-> "load", k |-> 0, ok |-> TRUE]
            /\ UNCHANGED faults
       ELSE /\ faults < MaxFaults
            /\ faults' = faults + 1
            /\ sponsors' = <<>>
            /\ src' = <<>>
            /\ outcome' = <<>>
            /\ pc' = "fatal"
            /\ last' = [op |-> "fatal", k |-> 0, ok |-> FALSE]
            /\ UNCHANGED loaded_file
    /\ UNCHANGED <<csv_file, clock, marked>>

(* run without the try of line 554: the exception of str.format leaves   *)
(* run and ends the process in the handler of main                        *)
create_email_message_AbortsRun ==
    /\ pc = "loop"
    /\ i <= Len(sponsors)
    /\ \E built \in BOOLEAN :
          /\ built \/ faults < MaxFaults
          /\ faults' = IF built THEN faults ELSE faults + 1
          /\ last' = [op |-> "build", k |-> i, ok |-> built]
          /\ IF built
             THEN /\ pc' = "send"
                  /\ UNCHANGED <<i, outcome>>
             ELSE /\ pc' = "fatal"
                  /\ i' = i
                  /\ outcome' = [outcome EXCEPT ![i] = "error"]
    /\ UNCHANGED <<csv_file, clock, runs, smtp_user, smtp_password, sponsors, emails_sent, batch_start_time,
                   wait, loaded_file, src, cooldowns, delays, marked, io_failed>>

(* run, lines 553-558 and 573-575: the message of sponsor i is built, or  *)
(* str.format raises and the loop goes on with the next sponsor           *)
create_email_message ==
    /\ pc = "loop"
    /\ i <= Len(sponsors)
    /\ \E built \in BOOLEAN :
          /\ built \/ faults < MaxFaults
          /\ faults' = IF built THEN faults ELSE faults + 1
          /\ last' = [op |-> "build", k |-> i, ok |-> built]
          /\ IF built
             THEN /\ pc' = "send"
                  /\ UNCHANGED <<i, outcome>>
             ELSE /\ pc' = "loop"
                  /\ i' = i + 1
                  /\ outcome' = [outcome EXCEPT ![i] = "error"]
    /\ UNCHANGED <<csv_file, clock, runs, smtp_user, smtp_password, sponsors, emails_sent, batch_start_time,
                   wait, loaded_file, src, cooldowns, delays, marked, io_failed>>

(* run without the test of line 564: the status update follows a failed  *)
(* send as well                                                           *)
send_email_UpdatesOnFailure ==
    /\ pc = "send"
    /\ \E success \in BOOLEAN, slow \in BOOLEAN :
          /\ slow => success
          /\ (success /\ ~slow) \/ faults < MaxFaults
          /\ faults' = IF success /\ ~slow THEN faults ELSE faults + 1
          /\ clock' = IF slow THEN clock + SlowSend ELSE clock
          /\ last' = [op |-> "send", k |-> i, ok |-> success]
          /\ pc' = "update"
          /\ outcome' = [outcome EXCEPT ![i] = IF success THEN "sent" ELSE "failed"]
          /\ i' = i
    /\ UNCHANGED <<csv_file, runs, smtp_user, smtp_password, sponsors, emails_sent, batch_start_time,
                   wait, loaded_file, src, cooldowns, delays, marked, io_failed>>

(* run with apply_rate_limiting called outside the test of line 564: a    *)
(* failed send is followed by a pacing delay                               *)
send_email_PacesFailures ==
    /\ pc = "send"
    /\ \E success \in BOOLEAN, slow \in BOOLEAN :
          /\ slow => success
          /\ (success /\ ~slow) \/ faults < MaxFaults
          /\ faults' = IF success /\ ~slow THEN faults ELSE faults + 1
          /\ clock' = IF slow THEN clock + SlowSend ELSE clock
          /\ last' = [op |-> "send", k |-> i, ok |-> success]
          /\ IF success
             THEN /\ pc' = "update"
                  /\ outcome' = [outcome EXCEPT ![i] = "sent"]
                  /\ UNCHANGED <<wait, delays>>
             ELSE /\ pc' = "delay"
                  /\ outcome' = [outcome EXCEPT ![i] = "failed"]
                  /\ wait' \in randint(min_delay, max_delay)
                  /\ delays' = delays + 1
          /\ i' = i
    /\ UNCHANGED <<csv_file, runs, smtp_user, smtp_password, sponsors, emails_sent, batch_start_time,
                   loaded_file, src, cooldowns, marked, io_failed>>

(* run with a failed send tried again: the loop stays at sponsor i *)
send_email_Retries ==
    /\ pc = "send"
    /\ \E success \in BOOLEAN, slow \in BOOLEAN :
          /\ slow => success
          /\ (success /\ ~slow) \/ faults < MaxFaults
          /\ faults' = IF success /\ ~slow THEN faults ELSE faults + 1
          /\ clock' = IF slow THEN clock + SlowSend ELSE clock
          /\ last' = [op |-> "send", k |-> i, ok |-> success]
          /\ IF success
             THEN /\ pc' = "update"
                  /\ outcome' = [outcome EXCEPT ![i] = "sent"]
             ELSE /\ pc' = "loop"
                  /\ outcome' = [outcome EXCEPT ![i] = "failed"]
          /\ i' = i
    /\ UNCHANGED <<csv_file, runs, smtp_user, smtp_password, sponsors, emails_sent, batch_start_time,
                   wait, loaded_file, src, cooldowns, delays, marked, io_failed>>

(* run, lines 560-564 and 570-571: send_email returns True or False; the *)
(* accepted message went out at once or after the server stalled         *)
send_email ==
    /\ pc = "send"
    /\ \E success \in BOOLEAN, slow \in BOOLEAN :
          /\ slow => success
          /\ (success /\ ~slow) \/ faults < MaxFaults
          /\ faults' = IF success /\ ~slow THEN faults ELSE faults + 1
          /\ clock' = IF slow THEN clock + SlowSend ELSE clock
          /\ last' = [op |-> "send", k |-> i, ok |-> success]
          /\ IF success
             THEN /\ pc' = "update"
                  /\ outcome' = [outcome EXCEPT ![i] = "sent"]
                  /\ i' = i
             ELSE /\ pc' = "loop"
                  /\ outcome' = [outcome EXCEPT ![i] = "failed"]
                  /\ i' = i + 1
    /\ UNCHANGED <<csv_file, runs, smtp_user, smtp_password, sponsors, emails_sent, batch_start_time,
                   wait, loaded_file, src, cooldowns, delays, marked, io_failed>>

(* run with an update_csv_status that lacks the except of line 532: a     *)
(* failed update is caught by the loop of run, after the file was touched *)
update_and_count_Escapes ==
    /\ pc = "update"
    /\ \E storage_ok \in BOOLEAN :
          /\ storage_ok \/ faults < MaxFaults
          /\ faults' = IF storage_ok THEN faults ELSE faults + 1
          /\ csv_file' = update_csv_status(csv_file, sponsors[i], clock, storage_ok)
          /\ marked' = IF storage_ok /\ update_ok(csv_file, sponsors[i], clock)
                       THEN marked \cup {<<runs, Identity(sponsors[i])>>}
                       ELSE marked
          /\ io_failed' = (io_failed \/ ~storage_ok)
          /\ last' = [op |-> "update", k |-> i, ok |-> storage_ok]
          /\ IF storage_ok /\ update_ok(csv_file, sponsors[i], clock)
             THEN /\ emails_sent' = emails_sent + 1
                  /\ i' = i
                  /\ IF CooldownDue(emails_sent')
                     THEN /\ pc' = "cooldown"
                          /\ wait' = CooldownWait(batch_start_time, clock)
                          /\ cooldowns' = cooldowns + 1
                          /\ UNCHANGED delays
                     ELSE /\ pc' = "delay"
                          /\ wait' \in randint(min_delay, max_delay)
                          /\ delays' = delays + 1
                          /\ UNCHANGED cooldowns
             ELSE /\ pc' = "loop"
                  /\ i' = i + 1
                  /\ UNCHANGED <<emails_sent, wait, cooldowns, delays>>
    /\ UNCHANGED <<clock, runs, smtp_user, smtp_password, sponsors, batch_start_time, loaded_file, src,
                   outcome>>

(* run with a batch start time taken at the first counted send of the run *)
(* instead of only at the end of a cooldown                               *)
update_and_count_StampsBatchStart ==
    /\ pc = "update"
    /\ \E storage_ok \in BOOLEAN :
          /\ storage_ok \/ faults < MaxFaults
          /\ faults' = IF storage_ok THEN faults ELSE faults + 1
          /\ csv_file' = update_csv_status(csv_file, sponsors[i], clock, storage_ok)
          /\ marked' = IF storage_ok /\ update_ok(csv_file, sponsors[i], clock)
                       THEN marked \cup {<<runs, Identity(sponsors[i])>>}
                       ELSE marked
          /\ io_failed' = (io_failed \/ ~storage_ok)
          /\ last' = [op |-> "update", k |-> i, ok |-> storage_ok]
    /\ emails_sent' = emails_sent + 1
    /\ batch_start_time' = IF batch_start_time = NoTime THEN clock ELSE batch_start_time
    /\ IF CooldownDue(emails_sent')
       THEN /\ pc' = "cooldown"
            /\ wait' = CooldownWait(batch_start_time', clock)
            /\ cooldowns' = cooldowns + 1
            /\ UNCHANGED delays
       ELSE /\ pc' = "delay"
            /\ wait' \in randint(min_delay, max_delay)
            /\ delays' = delays + 1
            /\ UNCHANGED cooldowns
    /\ UNCHANGED <<clock, runs, smtp_user, smtp_password, sponsors, i, loaded_file, src,
                   outcome>>

(* run, lines 565-569: the status update, the count, and                  *)
(* apply_rate_limiting up to its first sleep                              *)
update_and_count ==
    /\ pc = "update"
    /\ \E storage_ok \in BOOLEAN :
          /\ storage_ok \/ faults < MaxFaults
          /\ faults' = IF storage_ok THEN faults ELSE faults + 1
          /\ csv_file' = update_csv_status(csv_file, sponsors[i], clock, storage_ok)
          /\ marked' = IF storage_ok /\ update_ok(csv_file, sponsors[i], clock)
                       THEN marked \cup {<<runs, Identity(sponsors[i])>>}
                       ELSE marked
          /\ io_failed' = (io_failed \/ ~storage_ok)
          /\ last' = [op |-> "update", k |-> i, ok |-> storage_ok]
    /\ emails_sent' = emails_sent + 1
    /\ IF CooldownDue(emails_sent')
       THEN /\ pc' = "cooldown"
            /\ wait' = CooldownWait(batch_start_time, clock)
            /\ cooldowns' = cooldowns + 1
            /\ UNCHANGED delays
       ELSE /\ pc' = "delay"
            /\ wait' \in randint(min_delay, max_delay)
            /\ delays' = delays + 1
            /\ UNCHANGED cooldowns
    /\ UNCHANGED <<clock, runs, smtp_user, smtp_password, sponsors, i, batch_start_time, loaded_file, src,
                   outcome>>

(* apply_rate_limiting with the pacing delay in an else branch of the     *)
(* cooldown test: after a cooldown the loop goes on at once               *)
cooldown_end_SkipsDelay ==
    /\ pc = "cooldown"
    /\ clock' = clock + wait
    /\ batch_start_time' = clock'
    /\ wait' = 0
    /\ i' = i + 1
    /\ pc' = "loop"
    /\ last' = [op |-> "cooldown", k |-> i, ok |-> TRUE]
    /\ UNCHANGED <<csv_file, runs, smtp_user, smtp_password, sponsors, emails_sent, loaded_file, src,
                   outcome, cooldowns, delays, marked, io_failed, faults>>

(* apply_rate_limiting, lines 486-495: the cooldown sleep returns, the    *)
(* batch start is set, the pacing delay is drawn                          *)
cooldown_end ==
    /\ pc = "cooldown"
    /\ clock' = clock + wait
    /\ batch_start_time' = clock'
    /\ wait' \in randint(min_delay, max_delay)
    /\ delays' = delays + 1
    /\ pc' = "delay"
    /\ last' = [op |-> "cooldown", k |-> i, ok |-> TRUE]
    /\ UNCHANGED <<csv_file, runs, smtp_user, smtp_password, sponsors, i, emails_sent, loaded_file, src,
                   outcome, cooldowns, marked, io_failed, faults>>

(* apply_rate_limiting, line 495: the pacing sleep returns and the loop   *)
(* goes on with the next sponsor                                          *)
delay_end ==
    /\ pc = "delay"
    /\ clock' = clock + wait
    /\ wait' = 0
    /\ i' = i + 1
    /\ pc' = "loop"
    /\ last' = [op |-> "delay", k |-> i, ok |-> TRUE]
    /\ UNCHANGED <<csv_file, runs, smtp_user, smtp_password, sponsors, emails_sent, batch_start_time,
                   loaded_file, src, outcome, cooldowns, delays, marked, io_failed,
                   faults>>

(* run, lines 577-579: the summary after the last sponsor *)
run_completed ==
    /\ pc = "loop"
    /\ i > Len(sponsors)
    /\ pc' = "done"
    /\ last' = [op |-> "summary", k |-> emails_sent, ok |-> TRUE]
    /\ UNCHANGED <<csv_file, clock, runs, smtp_user, smtp_password, sponsors, i, emails_sent,
                   batch_start_time, wait, loaded_file, src, outcome, cooldowns,
                   delays, marked, io_failed, faults>>

(* main, lines 589-591: KeyboardInterrupt ends the process wherever it is; *)
(* inside update_csv_status it leaves what had reached the file            *)
KeyboardInterrupt ==
    /\ pc \in {"loop", "send", "update", "cooldown", "delay"}
    /\ faults < MaxFaults
    /\ faults' = faults + 1
    /\ pc' = "interrupted"
    /\ last' = [op |-> "interrupt", k |-> i, ok |-> FALSE]
    /\ IF pc = "update"
       THEN /\ csv_file' \in interrupted_update(csv_file, sponsors[i], clock)
            /\ marked' = IF \E k \in DOMAIN csv_file'.rows :
                               /\ csv_file'.rows[k] # csv_file.rows[k]
                               /\ Get(csv_file'.rows[k], ST) = Sent
                         THEN marked \cup {<<runs, Identity(sponsors[i])>>}
                         ELSE marked
       ELSE UNCHANGED <<csv_file, marked>>
    /\ UNCHANGED <<clock, runs, smtp_user, smtp_password, sponsors, i, emails_sent, batch_start_time, wait,
                   loaded_file, src, outcome, cooldowns, delays, io_failed>>

Next ==
    \/ main
    \/ create_email_message
    \/ send_email
    \/ update_and_count
    \/ cooldown_end
    \/ delay_end
    \/ run_completed
    \/ KeyboardInterrupt

Spec == Init /\ [][Next]_vars

SpecPacing == InitPacing /\ [][Next]_vars

SpecCategory == InitCategory /\ [][Next]_vars

(* the steps of run: each call of the loop body returns or raises, and     *)
(* each sleep ends; an interrupt may come or not                           *)
RunStep ==
    \/ create_email_message
    \/ send_email
    \/ update_and_count
    \/ cooldown_end
    \/ delay_end
    \/ run_completed

SpecLive == InitLive /\ [][Next]_vars /\ WF_vars(RunStep)

-----------------------------------------------------------------------------
(* Properties *)

SentCount == Cardinality({k \in DOMAIN outcome : outcome[k] = "sent"})

(* the run is dispatching the sponsor last.k *)
Dispatching == last.op = "send"

(* C1: a row whose Status is "Sent" when a run loads the ledger is not in  *)
(* that run's processing set and no dispatch is attempted for it; a        *)
(* contact marked Sent by an earlier run is not dispatched by a later run. *)
C1_SentRowsNotProcessed ==
    /\ \A k \in DOMAIN src : Get(loaded_file.rows[src[k]], ST) # Sent
    /\ Dispatching =>
          /\ last.k \in DOMAIN src
          /\ Get(loaded_file.rows[src[last.k]], ST) # Sent
          /\ \A r \in 1..(runs - 1) : <<r, Identity(sponsors[last.k])>> \notin marked

(* a later run dispatches while the ledger it loaded has a Sent row that   *)
(* an earlier run marked                                                   *)
C1_Witness ==
    /\ Dispatching
    /\ runs = 2
    /\ \E m \in marked : m[1] = 1
    /\ \E n \in DOMAIN loaded_file.rows : Get(loaded_file.rows[n], ST) = Sent


(* C2: the update after a successful dispatch changes the row of that      *)
(* contact from Pending to Sent with the timestamp of the update, and      *)
(* leaves every other row of the ledger as it was.                         *)
C2_OnlyContactRowMarked ==
    [][(last'.op = "update" /\ last'.ok) =>
          /\ DOMAIN csv_file'.rows = DOMAIN csv_file.rows
          /\ \A n \in DOMAIN csv_file.rows :
                IF n = src[i]
                THEN /\ Get(csv_file.rows[n], ST) # Sent
                     /\ Get(csv_file'.rows[n], ST) = Sent
                     /\ Get(csv_file'.rows[n], TS) = FormatTime(clock)
                ELSE csv_file'.rows[n] = csv_file.rows[n]]_vars

(* C3: at the end of a run the ledger row of every contact whose dispatch  *)
(* failed is the row the run loaded, so the next run loads it again.       *)
C3_FailedRowUnchanged ==
    pc = "done" =>
        \A k \in DOMAIN outcome :
            outcome[k] = "failed" =>
                /\ src[k] \in DOMAIN csv_file.rows
                /\ csv_file.rows[src[k]] = loaded_file.rows[src[k]]
                /\ RowLoaded(csv_file.rows[src[k]])

(* C4: update_csv_status runs, and the ledger changes, only in the step    *)
(* right after a dispatch of the same contact that returned success; after *)
(* a failed dispatch or a failed build there is no ledger write.           *)
C4_WriteOnlyAfterSuccessfulSend ==
    [][/\ (last'.op = "update" \/ csv_file' # csv_file) =>
             /\ last = [op |-> "send", k |-> i, ok |-> TRUE]
             /\ outcome[i] = "sent"
       /\ (last.op \in {"send", "build"} /\ ~last.ok) =>
             /\ csv_file' = csv_file
             /\ last'.op # "update"]_vars

(* a status update made in a run in which an earlier contact failed *)
C4_Witness ==
    /\ last.op = "update"
    /\ \E k \in DOMAIN outcome : outcome[k] \in {"failed", "error"}

(* C5: at every loop boundary the cooldowns entered in the run are          *)
(* floor(successful sends / batch size); a cooldown is entered right after *)
(* the count reaches a multiple of the batch size and before the next      *)
(* dispatch, and failed sends add none.                                    *)
C5_CooldownPerBatch ==
    /\ pc \in {"loop", "send", "done"} =>
          /\ emails_sent = SentCount
          /\ cooldowns = SentCount \div emails_per_batch
    /\ pc = "cooldown" =>
          /\ last.op = "update"
          /\ emails_sent = SentCount
          /\ emails_sent % emails_per_batch = 0
          /\ cooldowns = emails_sent \div emails_per_batch

(* a loop boundary past the first batch in a run with a failed send *)
C5_Witness ==
    /\ pc = "loop"
    /\ cooldowns >= 1
    /\ emails_sent > emails_per_batch
    /\ \E k \in DOMAIN outcome : outcome[k] = "failed"

(* C6: a failed send or a failed build leaves the send counter and the     *)
(* batch start time as they were, starts no delay and no cooldown, lets no *)
(* time pass, and the loop is at the next contact.                         *)
C6_FailureLeavesPacer ==
    [][((last'.op = "send" \/ last'.op = "build") /\ ~last'.ok) =>
          /\ emails_sent' = emails_sent
          /\ batch_start_time' = batch_start_time
          /\ cooldowns' = cooldowns
          /\ delays' = delays
          /\ wait' = wait
          /\ clock' = clock
          /\ pc' = "loop"
          /\ i' = i + 1]_vars

(* a failed send after the first cooldown of the run *)
C6_Witness ==
    /\ last.op = "send"
    /\ ~last.ok
    /\ emails_sent >= 1
    /\ batch_start_time # NoTime

(* C7: a run over a ledger of N pending contacts, N below the batch size,  *)
(* in which every dispatch succeeds (and the file can be opened) ends with *)
(* all N rows Sent with a timestamp, N pacing delays and no cooldown.      *)
C7_AllSentBelowBatch ==
    (/\ pc = "done"
     /\ ~io_failed
     /\ Len(sponsors) >= 1
     /\ Len(sponsors) = Len(loaded_file.rows)
     /\ Len(sponsors) < emails_per_batch
     /\ \A k \in DOMAIN outcome : outcome[k] = "sent")
    => /\ Len(csv_file.rows) = Len(loaded_file.rows)
       /\ \A n \in DOMAIN csv_file.rows :
             /\ Get(csv_file.rows[n], ST) = Sent
             /\ Truthy(Get(csv_file.rows[n], TS))
       /\ delays = Len(sponsors)
       /\ cooldowns = 0

(* C8: at the end of a run (the file could be opened) the Sent rows are    *)
(* the rows Sent at load time and the rows of the contacts whose dispatch  *)
(* succeeded, the failed contacts are still pending, and the reported      *)
(* number is the number of successful dispatches.                          *)
C8_SentRowsMatchOutcomes ==
    (pc = "done" /\ ~io_failed /\ last.op = "summary") =>
        /\ \A n \in DOMAIN loaded_file.rows :
              /\ n \in DOMAIN csv_file.rows
              /\ Get(csv_file.rows[n], ST) = Sent
                    <=> \/ Get(loaded_file.rows[n], ST) = Sent
                        \/ \E k \in DOMAIN src : src[k] = n /\ outcome[k] = "sent"
        /\ \A k \in DOMAIN outcome :
              outcome[k] = "failed" => RowLoaded(csv_file.rows[src[k]])
        /\ last.k = SentCount

(* C9: an interrupt, on a ledger with all six columns, ends the run, keeps *)
(* every Sent row of the persisted ledger Sent, and leaves the row of      *)
(* every contact not yet processed as the run loaded it.                   *)
C9_InterruptKeepsLedger ==
    [][(last'.op = "interrupt" /\ csv_file.fieldnames = FullHeader) =>
          /\ pc' = "interrupted"
          /\ \A n \in DOMAIN csv_file.rows :
                Get(csv_file.rows[n], ST) = Sent =>
                    /\ n \in DOMAIN csv_file'.rows
                    /\ Get(csv_file'.rows[n], ST) = Sent
          /\ \A k \in DOMAIN src :
                k > i =>
                    /\ src[k] \in DOMAIN csv_file'.rows
                    /\ csv_file'.rows[src[k]] = loaded_file.rows[src[k]]]_vars

(* C10: a status update keeps the header, the number and order of the rows *)
(* and every cell outside the Status and Sent Timestamp columns.           *)
C10_RowsAndColumnsKept ==
    [][last'.op = "update" =>
          /\ csv_file'.fieldnames = csv_file.fieldnames
          /\ Len(csv_file'.rows) = Len(csv_file.rows)
          /\ \A n \in DOMAIN csv_file.rows :
                \A c \in DOMAIN csv_file.rows[n] \ {ST, TS} :
                    csv_file'.rows[n][c] = csv_file.rows[n][c]]_vars


(* C11: in every step of a run (interrupts aside) every row of the ledger  *)
(* stays in the ledger, a Sent row stays Sent, and a row changes only in   *)
(* the update after a successful send of the contact the row belongs to.   *)
C11_StatusOnlyPendingToSent ==
    [][last'.op # "interrupt" =>
          \A n \in DOMAIN csv_file.rows :
              /\ n \in DOMAIN csv_file'.rows
              /\ Get(csv_file.rows[n], ST) = Sent => Get(csv_file'.rows[n], ST) = Sent
              /\ csv_file'.rows[n] # csv_file.rows[n] =>
                    /\ last = [op |-> "send", k |-> i, ok |-> TRUE]
                    /\ Get(csv_file'.rows[n], ST) = Sent
                    /\ Sponsor(csv_file.rows[n])[EA] = sponsors[i][EA]
                    /\ Sponsor(csv_file.rows[n])[CN] = sponsors[i][CN]]_vars

(* C12: a run loads, in ledger order, exactly the rows that are not Sent,  *)
(* have an organization, a contact name and an email, and whose email has  *)
(* an "@".                                                                 *)
C12_LoadedExactlyValidRows ==
    (runs >= 1 /\ last.op # "fatal") =>
        /\ \A n \in DOMAIN loaded_file.rows :
              (\E k \in DOMAIN src : src[k] = n)
                  <=> /\ Get(loaded_file.rows[n], ST) # Sent
                      /\ Strip(Get(loaded_file.rows[n], ST)) # Sent
                      /\ Truthy(Get(loaded_file.rows[n], CN))
                      /\ Truthy(Get(loaded_file.rows[n], PN))
                      /\ Truthy(Get(loaded_file.rows[n], EA))
                      /\ Contains(Get(loaded_file.rows[n], EA), "@")
        /\ \A k \in DOMAIN src : \A m \in DOMAIN src : k < m => src[k] < src[m]


(* the Category cell of the row sponsor k was loaded from *)
RawCategory(k) == Get(loaded_file.rows[src[k]], CAT)

Recognized == {Mechanical, CS}

(* C13 as stated: a Category that is not exactly Mechanical or CS is       *)
(* loaded as General, Mechanical and CS are loaded as themselves, and the  *)
(* loaded category is one of the three.                                    *)
C13_ExactMatchOrGeneral ==
    \A k \in DOMAIN sponsors :
        /\ RawCategory(k) \in Recognized => sponsors[k][CAT] = RawCategory(k)
        /\ RawCategory(k) \notin Recognized => sponsors[k][CAT] = General
        /\ sponsors[k][CAT] \in Recognized \cup {General}

(* C13 amended: the comparison is made after leading and trailing blanks   *)
(* are stripped; a Category that then is not exactly Mechanical or CS      *)
(* (blank, other case, unknown) is loaded as General, Mechanical and CS,   *)
(* with or without blanks around them, as Mechanical and CS.               *)
C13_StrippedMatchOrGeneral ==
    \A k \in DOMAIN sponsors :
        LET c == IF RawCategory(k) = None THEN <<>> ELSE Strip(RawCategory(k))
        IN  /\ c \in Recognized => sponsors[k][CAT] = c
            /\ c \notin Recognized => sponsors[k][CAT] = General
            /\ sponsors[k][CAT] \in Recognized \cup {General}

(* a load of " CS", kept as CS, next to "cs", made General *)
C13_Witness ==
    /\ Len(sponsors) = 2
    /\ RawCategory(1) = <<" ", "C", "S">> /\ sponsors[1][CAT] = CS
    /\ RawCategory(2) = <<"c", "s">> /\ sponsors[2][CAT] = General


(* C14: a process whose sender user or credential is missing after the     *)
(* config file and the environment are combined ends as a fatal error      *)
(* with nothing loaded and the ledger as it was, and nothing happens in    *)
(* it afterwards: the next step is the start of another process.           *)
C14_MissingCredentialIsFatal ==
    [][/\ (runs' = runs + 1 /\ ~(Truthy(smtp_user') /\ Truthy(smtp_password')))
            => /\ pc' = "fatal"
               /\ last'.op = "fatal"
               /\ sponsors' = <<>>
               /\ csv_file' = csv_file
       /\ pc = "fatal" => runs' = runs + 1]_vars

(* a process that has the user but no password failed before a ledger with *)
(* a pending contact                                                       *)
C14_Witness ==
    /\ pc = "fatal"
    /\ Truthy(smtp_user) /\ ~Truthy(smtp_password)
    /\ read_sponsors_csv(csv_file) # <<>>


(* C15: when the build of the message of contact i raises, the run goes on *)
(* with contact i + 1, the ledger and the send counter are as they were,   *)
(* and a run that reaches its summary has processed every loaded contact.  *)
C15_BuildErrorContained ==
    [][/\ (last'.op = "build" /\ ~last'.ok) =>
             /\ pc' = "loop"
             /\ i' = i + 1
             /\ sponsors' = sponsors
             /\ csv_file' = csv_file
             /\ emails_sent' = emails_sent
             /\ outcome' = [outcome EXCEPT ![i] = "error"]
       /\ last'.op = "summary" =>
             \A k \in DOMAIN sponsors : outcome[k] \in {"sent", "failed", "error"}]_vars

(* a run whose first build raised has sent to its second contact and ended *)
C15_Witness ==
    /\ pc = "done"
    /\ Len(outcome) >= 2
    /\ outcome[1] = "error"
    /\ outcome[2] = "sent"
    /\ src[1] \in DOMAIN csv_file.rows
    /\ Get(csv_file.rows[src[1]], ST) # Sent


Running == pc \in {"loop", "send", "update", "cooldown", "delay"}

(* C16: a run ends (in its summary, or by an interrupt); within a run the  *)
(* loop index only moves to the next contact, a build and a dispatch are   *)
(* of the contact at the index, which has had no dispatch or build         *)
(* failure before, the contacts before the index have their outcome and    *)
(* those after it have none, and an outcome once recorded is never         *)
(* replaced.                                                               *)
C16_RunTerminatesOneAttemptEach ==
    /\ Running ~> pc \in {"done", "interrupted"}
    /\ [][runs' = runs =>
            /\ i' \in {i, i + 1}
            /\ sponsors' = sponsors
            /\ last'.op \in {"build", "send"} =>
                  /\ last'.k = i
                  /\ outcome[i] = "none"
            /\ \A k \in DOMAIN outcome :
                  /\ outcome'[k] # outcome[k] => (k = i /\ outcome[k] = "none")
                  /\ k < i' => outcome'[k] # "none"
                  /\ k > i' => outcome'[k] = "none"]_vars

(* a run over two contacts ended after a failed first dispatch and a       *)
(* successful second one                                                   *)
C16_Witness ==
    /\ pc = "done"
    /\ last.op = "summary"
    /\ Len(outcome) >= 2
    /\ outcome[1] = "failed"
    /\ outcome[2] = "sent"


(* the update of the step just taken raised: open() failed, or a row or    *)
(* the writer raised                                                       *)
UpdateFailed == last'.op = "update" /\ ~(last'.ok /\ update_ok(csv_file, sponsors[i], clock))

(* C17: when the status update after a successful dispatch raises, the     *)
(* send is counted, the pacer starts its cooldown or pacing delay, the     *)
(* run stays at the contact until the wait ends, and the summary of the    *)
(* run reports the successful dispatches, those included.                  *)
C17_WriteFailureContained ==
    [][/\ UpdateFailed =>
             /\ outcome[i] = "sent"
             /\ emails_sent' = emails_sent + 1
             /\ i' = i
             /\ sponsors' = sponsors
             /\ IF CooldownDue(emails_sent')
                THEN pc' = "cooldown" /\ cooldowns' = cooldowns + 1
                ELSE pc' = "delay" /\ delays' = delays + 1
       /\ last'.op = "summary" =>
             /\ last'.k = SentCount
             /\ emails_sent = SentCount
             /\ \A k \in DOMAIN outcome : outcome[k] # "none"]_vars

(* a run ended after open() failed in the update of its first contact and  *)
(* its second contact was sent to                                          *)
C17_Witness ==
    /\ pc = "done"
    /\ io_failed
    /\ Len(outcome) >= 2
    /\ outcome[1] = "sent"
    /\ outcome[2] = "sent"
    /\ emails_sent = 2
    /\ src[1] \in DOMAIN csv_file.rows
    /\ Get(csv_file.rows[src[1]], ST) # Sent


(* C18: whenever a run is inside a pacing delay or a cooldown wait (the    *)
(* ledger has all six columns, open() never failed), the row of every      *)
(* contact dispatched successfully so far in the run is in the persisted   *)
(* ledger as Sent, so an interrupt during the wait leaves none of them     *)
(* pending.                                                                *)
C18_PersistedBeforeWait ==
    (/\ pc \in {"cooldown", "delay"}
     /\ ~io_failed
     /\ csv_file.fieldnames = FullHeader)
    => \A k \in DOMAIN outcome :
          outcome[k] = "sent" =>
              /\ src[k] \in DOMAIN csv_file.rows
              /\ Get(csv_file.rows[src[k]], ST) = Sent


(* C19: the wait of a cooldown is the full cooldown_duration when the run  *)
(* has no batch start time, and otherwise what is left of it since the     *)
(* batch start, 0 when more has passed; it is never negative and never     *)
(* above cooldown_duration; the end of the cooldown sets the batch start   *)
(* to the time it ends, before the pacing delay and the next dispatch.     *)
C19_CooldownWaitClamped ==
    [][/\ pc' = "cooldown" =>
             /\ wait' = IF batch_start_time' = NoTime
                        THEN cooldown_duration
                        ELSE IF clock' - batch_start_time' >= cooldown_duration
                             THEN 0
                             ELSE cooldown_duration - (clock' - batch_start_time')
             /\ 0 <= wait'
             /\ wait' <= cooldown_duration
       /\ pc = "cooldown" /\ last'.op # "interrupt" =>
             /\ last'.op = "cooldown"
             /\ clock' = clock + wait
             /\ batch_start_time' = clock'
             /\ pc' = "delay"
       /\ (last'.op = "send" /\ cooldowns >= 1) => batch_start_time # NoTime]_vars

(* a cooldown entered when more than cooldown_duration has passed since    *)
(* the batch start: nothing is left to wait                                *)
C19_Witness ==
    /\ pc = "cooldown"
    /\ batch_start_time # NoTime
    /\ clock - batch_start_time > cooldown_duration
    /\ wait = 0


(* C20: every pacing delay lasts between min_delay and max_delay seconds   *)
(* and is waited for in full (only its end or an interrupt leaves it), and *)
(* when a dispatch starts every successful dispatch before it in the run   *)
(* has had its pacing delay.                                               *)
C20_PacingDelayInRange ==
    [][/\ pc' = "delay" =>
             /\ min_delay <= wait'
             /\ wait' <= max_delay
       /\ (pc = "delay" /\ last'.op # "interrupt") =>
             /\ last'.op = "delay"
             /\ clock' = clock + wait
             /\ clock' >= clock + min_delay
       /\ (pc = "update" /\ last'.op # "interrupt") => pc' \in {"cooldown", "delay"}
       /\ last'.op = "send" =>
             /\ pc # "delay"
             /\ delays = SentCount]_vars

(* the dispatch of the second contact, after the first was sent to and its *)
(* pacing delay of max_delay seconds has passed                            *)
C20_Witness ==
    /\ last = [op |-> "send", k |-> 2, ok |-> TRUE]
    /\ outcome[1] = "sent"
    /\ delays = 1
    /\ clock = 1 + max_delay


(* C21: every process starts with the send counter at 0 and without a      *)
(* batch start time, whatever earlier processes did, and a run is in a     *)
(* cooldown only when its own successful dispatches have reached the batch *)
(* size.                                                                   *)
C21_BatchStateRunScoped ==
    [][/\ runs' = runs + 1 =>
             /\ emails_sent' = 0
             /\ batch_start_time' = NoTime
       /\ cooldowns' >= 1 =>
             Cardinality({k \in DOMAIN outcome' : outcome'[k] = "sent"}) >= emails_per_batch]_vars

(* a second run ended without a cooldown after one successful dispatch,    *)
(* the first run having persisted enough dispatches to fill the batch with *)
(* it                                                                      *)
C21_Witness ==
    /\ runs = 2
    /\ pc = "done"
    /\ last = [op |-> "summary", k |-> 1, ok |-> TRUE]
    /\ cooldowns = 0
    /\ batch_start_time = NoTime
    /\ Cardinality({m \in marked : m[1] = 1}) + SentCount >= emails_per_batch
    /\ Cardinality({m \in marked : m[1] = 1}) < emails_per_batch


(* C22: within a run the batch start time is assigned only when a cooldown *)
(* ends, to the time it ends, so it is unset until the first cooldown of   *)
(* the run is over: the first cooldown waits the full cooldown_duration,   *)
(* and a later one waits cooldown_duration less the time passed since the  *)
(* previous cooldown ended (nothing when more has passed).                 *)
C22_FirstCooldownFull ==
    [][/\ batch_start_time' # batch_start_time =>
             \/ runs' = runs + 1 /\ batch_start_time' = NoTime
             \/ pc = "cooldown" /\ pc' = "delay" /\ batch_start_time' = clock'
       /\ (cooldowns' = 0 \/ (cooldowns' = 1 /\ pc' = "cooldown")) =>
             batch_start_time' = NoTime
       /\ (pc' = "cooldown" /\ cooldowns' = 1) => wait' = cooldown_duration
       /\ (pc' = "cooldown" /\ cooldowns' >= 2) =>
             /\ batch_start_time' # NoTime
             /\ batch_start_time' <= clock'
             /\ wait' = Max(0, cooldown_duration - (clock' - batch_start_time'))
             /\ wait' < cooldown_duration]_vars

(* the second cooldown of a run, shortened by the pacing delays since the  *)
(* first one ended                                                         *)
C22_Witness ==
    /\ pc = "cooldown"
    /\ cooldowns = 2
    /\ batch_start_time # NoTime
    /\ wait > 0
    /\ wait = cooldown_duration - (clock - batch_start_time)


(* C23: every counted send gets one pacing delay: directly, or after the   *)
(* cooldown it triggered, which always goes on into a pacing delay; while  *)
(* the run is between contacts or ended, the pacing delays of the run are  *)
(* as many as its successful dispatches, and a run whose last contact was  *)
(* sent to reaches its summary from the end of that contact's delay.       *)
C23_OneDelayPerSend ==
    [][/\ (pc = "cooldown" /\ last'.op # "interrupt") =>
             /\ pc' = "delay"
             /\ delays' = delays + 1
             /\ i' = i
       /\ (pc = "update" /\ last'.op # "interrupt") =>
             delays' + cooldowns' = delays + cooldowns + 1
       /\ pc' = "cooldown" => delays' = emails_sent' - 1
       /\ pc' = "delay" => delays' = emails_sent'
       /\ pc' \in {"loop", "send", "update", "done"} => delays' = emails_sent'
       /\ last'.op = "summary" =>
             /\ delays = SentCount
             /\ wait = 0
             /\ outcome[Len(outcome)] = "sent" =>
                   last = [op |-> "delay", k |-> Len(outcome), ok |-> TRUE]]_vars

(* a run ended whose last contact filled the batch: its cooldown and then  *)
(* its pacing delay were waited for before the summary                     *)
C23_Witness ==
    /\ pc = "done"
    /\ last.op = "summary"
    /\ Len(outcome) >= 1
    /\ outcome[Len(outcome)] = "sent"
    /\ cooldowns >= 1
    /\ SentCount % emails_per_batch = 0
    /\ batch_start_time # NoTime
    /\ clock >= batch_start_time + min_delay
    /\ delays = SentCount

====
